---- MODULE Spec2Model ----
(***************************************************************************)
(* ConnRecord (aries_cloudagent/connections/models/conn_record.py): the    *)
(* Role/State label-pair enumerations, the connection entity, its          *)
(* retrieval operations, the attached invitation document and the          *)
(* per-connection metadata store.                                          *)
(*                                                                         *)
(* Python values are written as strings: None is the reserved string None, *)
(* an enumeration member is "Role.<NAME>" or "State.<NAME>", and every     *)
(* other string is a Python str.                                           *)
(***************************************************************************)
EXTENDS Integers, Sequences, FiniteSets, TLC

VARIABLES
    mem,      \* the ConnRecord instance the caller holds, or NoRecord
    store,    \* storage, records of type "connection": id -> StorageRecord
    aux,      \* storage, invitation and metadata records: a sequence of slots
    tasks,    \* the metadata_set coroutines in flight: task -> frame
    hist,     \* history: what the metadata_set calls did, for the claims
    result    \* the last operation, its arguments and its outcome

vars == <<mem, store, aux, tasks, hist, result>>

None == "<None>"

Range(s) == {s[i] : i \in DOMAIN s}

----------------------------------------------------------------------------
(* Role and State: members in definition order, each with its value tuple  *)
(* (rfc160 label, rfc23 label).                                            *)

RoleMembers == <<"Role.REQUESTER", "Role.RESPONDER">>

RoleSet == Range(RoleMembers)

RoleValue(role) ==
    CASE role = "Role.REQUESTER" -> <<"invitee", "requester">>
      [] role = "Role.RESPONDER" -> <<"inviter", "responder">>

StateMembers ==
    <<"State.INIT", "State.INVITATION", "State.REQUEST",
      "State.RESPONSE", "State.COMPLETED", "State.ABANDONED">>

StateSet == Range(StateMembers)

StateValue(state) ==
    CASE state = "State.INIT"       -> <<"init", "start">>
      [] state = "State.INVITATION" -> <<"invitation", "invitation">>
      [] state = "State.REQUEST"    -> <<"request", "request">>
      [] state = "State.RESPONSE"   -> <<"response", "response">>
      [] state = "State.COMPLETED"  -> <<"active", "completed">>
      [] state = "State.ABANDONED"  -> <<"error", "abandoned">>

\* isinstance(x, str)
IsStr(x) == x # None /\ x \notin RoleSet /\ x \notin StateSet

\* Python truthiness of None, a str or an enumeration member
Truthy(x) == x # None /\ x # ""

RoleRfc160(role) == RoleValue(role)[1]

RoleRfc23(role) == RoleValue(role)[2]

StateRfc160(state) == StateValue(state)[1]

StateRfc23(state) == StateValue(state)[2]

\* the loop "for role in ConnRecord.Role: if label in role.value: return role"
RECURSIVE RoleScan(_, _)
RoleScan(label, i) ==
    IF i > Len(RoleMembers) THEN None
    ELSE IF label \in Range(RoleValue(RoleMembers[i])) THEN RoleMembers[i]
    ELSE RoleScan(label, i + 1)

\* a lookup that knows only the rfc160 label of each member
RECURSIVE RoleScanLegacyOnly(_, _)
RoleScanLegacyOnly(label, i) ==
    IF i > Len(RoleMembers) THEN None
    ELSE IF label = RoleValue(RoleMembers[i])[1] THEN RoleMembers[i]
    ELSE RoleScanLegacyOnly(label, i + 1)

RoleGetLegacyOnly(label) ==
    IF IsStr(label) THEN RoleScanLegacyOnly(label, 1)
    ELSE IF label \in RoleSet THEN label
    ELSE None

RoleGet(label) ==
    IF IsStr(label) THEN RoleScan(label, 1)
    ELSE IF label \in RoleSet THEN label
    ELSE None

RoleFlip(role) ==
    IF role = "Role.RESPONDER" THEN "Role.REQUESTER" ELSE "Role.RESPONDER"

RoleEq(role, other) == role = RoleGet(other)

RECURSIVE StateScan(_, _)
StateScan(label, i) ==
    IF i > Len(StateMembers) THEN None
    ELSE IF label \in Range(StateValue(StateMembers[i])) THEN StateMembers[i]
    ELSE StateScan(label, i + 1)

StateGet(label) ==
    IF IsStr(label) THEN StateScan(label, 1)
    ELSE IF label \in StateSet THEN label
    ELSE None

StateEq(state, other) == state = StateGet(other)

----------------------------------------------------------------------------
(* The connection entity.                                                  *)

RECORD_TYPE == "connection"

RECORD_TYPE_INVITATION == "connection_invitation"

RECORD_TYPE_METADATA == "connection_metadata"

TAG_NAMES == {"my_did", "their_did", "request_id", "invitation_key"}

ROUTING_STATE_NONE == "none"

ACCEPT_MANUAL == "manual"

INVITATION_MODE_ONCE == "once"

NoRecord == [connection_id |-> "<no record>"]

AttributeError == [raised |-> "AttributeError"]

\* Python "a or b"
PyOr(a, b) == IF Truthy(a) THEN a ELSE b

\* the keyword arguments of __init__ that the model does not vary
NoArgs ==
    [connection_id |-> None, my_did |-> None, their_did |-> None,
     their_label |-> None, their_role |-> None, invitation_key |-> None,
     request_id |-> None, state |-> None, inbound_connection_id |-> None,
     error_msg |-> None, routing_state |-> None, accept |-> None,
     invitation_mode |-> None, alias |-> None]

\* their_role as __init__ stores it; AttributeError when Role.get finds nothing
InitTheirRole(their_role) ==
    IF IsStr(their_role)
    THEN IF RoleGet(their_role) = None THEN AttributeError.raised
         ELSE RoleRfc160(RoleGet(their_role))
    ELSE IF their_role = None THEN None
    ELSE RoleRfc160(their_role)

\* a constructor that keeps a recognized label in the vocabulary it came in
InitStateAsGiven(state) ==
    IF IsStr(state) /\ StateGet(state) # None THEN state
    ELSE StateRfc160(PyOr(StateGet(state), "State.INIT"))

\* state as __init__ hands it to BaseRecord.__init__
InitState(state) == StateRfc160(PyOr(StateGet(state), "State.INIT"))

\* ConnRecord(**kw): the new instance, or AttributeError
ConnInit(kw) ==
    IF InitTheirRole(kw.their_role) = AttributeError.raised THEN AttributeError
    ELSE [connection_id |-> kw.connection_id,
          state |-> InitState(kw.state),
          my_did |-> kw.my_did,
          their_did |-> kw.their_did,
          their_label |-> kw.their_label,
          their_role |-> InitTheirRole(kw.their_role),
          invitation_key |-> kw.invitation_key,
          request_id |-> kw.request_id,
          error_msg |-> kw.error_msg,
          inbound_connection_id |-> kw.inbound_connection_id,
          routing_state |-> PyOr(kw.routing_state, ROUTING_STATE_NONE),
          accept |-> PyOr(kw.accept, ACCEPT_MANUAL),
          invitation_mode |-> PyOr(kw.invitation_mode, INVITATION_MODE_ONCE),
          alias |-> kw.alias]

\* Python "x in (a, b)" over a tuple of State members: for each member m,
\* "m is x or m == x", the latter being State.__eq__(m, x)
StateInTuple(x, members) ==
    \E m \in members : x = m \/ StateEq(m, x)

\* readiness that forgets the RESPONSE member
IsReadyCompletedOnly(rec) ==
    StateInTuple(StateGet(rec.state), {"State.COMPLETED"})

IsReady(rec) ==
    StateInTuple(StateGet(rec.state), {"State.COMPLETED", "State.RESPONSE"})

----------------------------------------------------------------------------
(* Inputs.                                                                 *)

AllRoleLabels == UNION {Range(RoleValue(r)) : r \in RoleSet}

AllStateLabels == UNION {Range(StateValue(s)) : s \in StateSet}

\* strings that are no member's label ("invitee" is a Role label, not a State's)
BogusLabels == {"bogus", ""}

StateInputs == {None} \cup StateSet \cup AllStateLabels \cup BogusLabels \cup {"invitee"}

RoleInputs == {None} \cup RoleSet \cup AllRoleLabels \cup BogusLabels \cup {"active"}

GetInputs == StateInputs \cup RoleInputs

\* what __init__ is called with: nothing, a member, a label of either
\* vocabulary, or a string that is no label
ConstructStates ==
    {None, "State.INIT", "State.COMPLETED", "bogus"} \cup AllStateLabels

ConstructRoles == {None, "Role.RESPONDER", "bogus"} \cup AllRoleLabels

----------------------------------------------------------------------------------------------------------------------------------------
(* The metadata_set coroutines and the history the claims read.            *)

\* two callers of metadata_set running concurrently
Tasks == {"task1", "task2"}

MetaConns == {"1", "2"}

MetaValues == {"v1", "v2"}

\* the (connection_id, key) pairs metadata_set is called with
MetaPairs == {<<"1", "k1">>, <<"1", "k2">>, <<"2", "k1">>}

\* a record without an id, and a key nothing is ever set for
SetPairs == MetaPairs \cup {<<None, "k1">>}

GetPairs == SetPairs \cup {<<"1", "missing">>}

IdleFrame == [pc |-> "idle", conn |-> None, key |-> None, value |-> None,
              record |-> [id |-> 0, tags |-> [key |-> None, connection_id |-> None]]]

\* calls: metadata_set calls and attach_invitation calls made so far;
\* sets[c, k]: the values of the metadata_set calls completed for (c, k), in
\* order; overlap: the pairs for which a call began while another was in
\* flight; raced: the pairs for which two calls in flight both saw not-found;
\* attached[c]: the documents attached to connection c, in order
NoHistory ==
    [calls |-> 0,
     sets |-> [p \in MetaPairs |-> <<>>],
     overlap |-> {},
     raced |-> {},
     attached |-> [c \in MetaConns |-> <<>>]]

----------------------------------------------------------------------------
(* Operations on the entity.  result holds the last operation: its name,   *)
(* its arguments, "ok" or the exception it raised, and what it returned.   *)

Ok(op, args, out) == [op |-> op, args |-> args, status |-> "ok", out |-> out]

Raised(op, args, exc) == [op |-> op, args |-> args, status |-> exc, out |-> None]

NoResult == Ok("none", <<>>, None)

EntityFrame == UNCHANGED <<store, aux, tasks, hist>>

StateGetCall(label) ==
    /\ result' = Ok("State.get", <<label>>, StateGet(label))
    /\ UNCHANGED mem
    /\ EntityFrame

RoleGetCall(label) ==
    /\ result' = Ok("Role.get", <<label>>, RoleGet(label))
    /\ UNCHANGED mem
    /\ EntityFrame

Construct(state, their_role) ==
    LET new == ConnInit([NoArgs EXCEPT !.state = state, !.their_role = their_role])
    IN /\ mem' = IF new = AttributeError THEN mem ELSE new
       /\ result' = IF new = AttributeError
                    THEN Raised("__init__", <<state, their_role>>, AttributeError.raised)
                    ELSE Ok("__init__", <<state, their_role>>, None)
       /\ EntityFrame

\* "record.state = label": ConnRecord defines no setter, the label is kept as given
SetState(label) ==
    /\ mem # NoRecord
    /\ mem' = [mem EXCEPT !.state = label]
    /\ result' = Ok("state=", <<label>>, None)
    /\ EntityFrame

IsReadyCall ==
    /\ mem # NoRecord
    /\ result' = Ok("is_ready", <<mem.state>>, IsReady(mem))
    /\ UNCHANGED mem
    /\ EntityFrame

Init ==
    /\ mem = NoRecord
    /\ store = <<>>
    /\ aux = <<>>
    /\ tasks = [t \in Tasks |-> IdleFrame]
    /\ hist = NoHistory
    /\ result = NoResult

Next ==
    \/ \E label \in GetInputs : StateGetCall(label)
    \/ \E label \in GetInputs : RoleGetCall(label)
    \/ \E state \in ConstructStates, their_role \in ConstructRoles :
          Construct(state, their_role)
    \/ \E label \in AllStateLabels : SetState(label)
    \/ IsReadyCall

Spec == Init /\ [][Next]_vars

----------------------------------------------------------------------------
(* Claims about the enumerations and the entity, checked under Spec.       *)

LegacyStateLabels == {StateValue(s)[1] : s \in StateSet}

LegacyRoleLabels == {RoleValue(r)[1] : r \in RoleSet}

\* C9: Role.get and State.get return member v for each of v's two labels,
\* every label belongs to exactly one member, and a string that is no
\* member's label gives None (the call never raises).
C9_GetByEitherLabel ==
    /\ \A l \in AllStateLabels :
         Cardinality({s \in StateSet : l \in Range(StateValue(s))}) = 1
    /\ \A l \in AllRoleLabels :
         Cardinality({r \in RoleSet : l \in Range(RoleValue(r))}) = 1
    /\ result.op = "State.get" =>
         /\ result.status = "ok"
         /\ \A s \in StateSet :
              result.args[1] \in {StateValue(s)[1], StateValue(s)[2]}
                 => result.out = s
         /\ (IsStr(result.args[1]) /\ result.args[1] \notin AllStateLabels)
                 => result.out = None
    /\ result.op = "Role.get" =>
         /\ result.status = "ok"
         /\ \A r \in RoleSet :
              result.args[1] \in {RoleValue(r)[1], RoleValue(r)[2]}
                 => result.out = r
         /\ (IsStr(result.args[1]) /\ result.args[1] \notin AllRoleLabels)
                 => result.out = None

C9_Witness ==
    /\ result.op = "State.get"
    /\ result.args = <<"completed">>
    /\ result.out = "State.COMPLETED"

\* C8: is_ready is true exactly when the record's state, under either
\* vocabulary, is a label of RESPONSE or COMPLETED; it is false for the labels
\* of INIT, INVITATION, REQUEST and ABANDONED.
C8_IsReadyExactly ==
    result.op = "is_ready" =>
        LET label == result.args[1]
            ready == Range(StateValue("State.RESPONSE"))
                         \cup Range(StateValue("State.COMPLETED"))
            notReady == UNION {Range(StateValue(s)) :
                                 s \in {"State.INIT", "State.INVITATION",
                                        "State.REQUEST", "State.ABANDONED"}}
        IN /\ result.out = (label \in ready)
           /\ label \in notReady => result.out = FALSE
           /\ label \in ready \cup notReady

C8_Witness ==
    /\ result.op = "is_ready"
    /\ result.args = <<"response">>
    /\ result.out = TRUE

\* C5 as claimed: at every point of the record's lifecycle, in-place
\* mutation of the state included, the stored state and, when present, the
\* stored their_role are rfc160 labels.
C5_StoredLabelsAlwaysLegacy ==
    mem # NoRecord =>
        /\ mem.state \in LegacyStateLabels
        /\ mem.their_role \in {None} \cup LegacyRoleLabels

\* C5 as amended: right after construction from a member or a label of
\* either vocabulary the stored state and their_role are the rfc160 labels of
\* their members, and no state or an unrecognized one gives "init"; an
\* in-place assignment stores the label as given, so the stored state stays
\* a label of some member, in the vocabulary the caller used.
C5_ConstructionStoresLegacy ==
    /\ (result.op = "__init__" /\ result.status = "ok") =>
         /\ mem.state \in LegacyStateLabels
         /\ StateGet(result.args[1]) = None => mem.state = "init"
         /\ \A s \in StateSet :
              result.args[1] \in {s, StateValue(s)[1], StateValue(s)[2]}
                 => mem.state = StateValue(s)[1]
         /\ result.args[2] = None => mem.their_role = None
         /\ \A r \in RoleSet :
              result.args[2] \in {r, RoleValue(r)[1], RoleValue(r)[2]}
                 => mem.their_role = RoleValue(r)[1]
    /\ result.op = "state=" => mem.state = result.args[1]
    /\ mem # NoRecord =>
         /\ mem.state \in AllStateLabels
         /\ mem.their_role \in {None} \cup LegacyRoleLabels

C5_Witness ==
    /\ result.op = "__init__"
    /\ result.status = "ok"
    /\ result.args = <<"completed", "requester">>
    /\ mem.state = "active"
    /\ mem.their_role = "invitee"

----------------------------------------------------------------------------
(* Storage of connection records and the retrieval operations.             *)

MaxConns == 2

StorageNotFoundError == "StorageNotFoundError"

StorageDuplicateError == "StorageDuplicateError"

RecordValueProps ==
    {"their_role", "inbound_connection_id", "routing_state", "accept",
     "invitation_mode", "alias", "error_msg", "their_label", "state"}

\* record_value: the non-tag properties of the instance
RecordValue(rec) == [prop \in RecordValueProps |-> rec[prop]]

\* BaseRecord.tags: the TAG_NAMES properties of the instance
RecordTags(rec) == [tag \in TAG_NAMES |-> rec[tag]]

\* BaseRecord.save: a record without an id gets a fresh one; the storage
\* record carries the tags and the value
SaveRecord(st, rec) ==
    LET id == IF rec.connection_id = None
              THEN ToString(Cardinality(DOMAIN st) + 1)
              ELSE rec.connection_id
    IN (id :> [type |-> RECORD_TYPE, tags |-> RecordTags(rec),
               value |-> RecordValue(rec)]) @@ st

\* BaseRecord.from_storage: the instance rebuilt by __init__ from the stored
\* tags and value
FromStorage(id, stored) ==
    ConnInit([k \in DOMAIN NoArgs |->
                IF k = "connection_id" THEN id
                ELSE IF k \in TAG_NAMES THEN stored.tags[k]
                ELSE IF k \in RecordValueProps THEN stored.value[k]
                ELSE None])

\* BaseRecord.retrieve_by_tag_filter: the one record of the class's type whose
\* tags match tag_filter and whose value matches post_filter
RetrieveByTagFilter(st, tag_filter, post_filter) ==
    LET found == {id \in DOMAIN st :
                    /\ st[id].type = RECORD_TYPE
                    /\ \A k \in DOMAIN tag_filter : st[id].tags[k] = tag_filter[k]
                    /\ \A k \in DOMAIN post_filter : st[id].value[k] = post_filter[k]}
    IN IF found = {} THEN [status |-> StorageNotFoundError, out |-> None]
       ELSE IF Cardinality(found) > 1
       THEN [status |-> StorageDuplicateError, out |-> None]
       ELSE LET id == CHOOSE x \in found : TRUE
            IN [status |-> "ok", out |-> FromStorage(id, st[id])]

\* "if x: d[key] = x" on a dict d
PutIfTruthy(d, key, x) == IF Truthy(x) THEN (key :> x) @@ d ELSE d

\* a lookup that asks for a null tag when a DID is not supplied
RetrieveByDidNullWhenAbsent(st, their_did, my_did, their_role) ==
    LET tag_filter == ("their_did" :> their_did) @@ ("my_did" :> my_did)
    IN IF Truthy(their_role) /\ RoleGet(their_role) = None
       THEN [status |-> AttributeError.raised, out |-> None]
       ELSE RetrieveByTagFilter(st, tag_filter,
                IF Truthy(their_role)
                THEN "their_role" :> RoleRfc160(RoleGet(their_role))
                ELSE <<>>)

RetrieveByDid(st, their_did, my_did, their_role) ==
    LET tag_filter == PutIfTruthy(PutIfTruthy(<<>>, "their_did", their_did),
                                  "my_did", my_did)
    IN IF Truthy(their_role) /\ RoleGet(their_role) = None
       THEN [status |-> AttributeError.raised, out |-> None]
       ELSE RetrieveByTagFilter(st, tag_filter,
                IF Truthy(their_role)
                THEN "their_role" :> RoleRfc160(RoleGet(their_role))
                ELSE <<>>)

\* a lookup by invitation key that leaves the state post-filter out
RetrieveByInvitationKeyAnyState(st, invitation_key, their_role) ==
    LET tag_filter == "invitation_key" :> invitation_key
    IN IF Truthy(their_role) /\ RoleGet(their_role) = None
       THEN [status |-> AttributeError.raised, out |-> None]
       ELSE RetrieveByTagFilter(st, tag_filter,
                IF Truthy(their_role)
                THEN "their_role" :> RoleRfc160(RoleGet(their_role))
                ELSE <<>>)

RetrieveByInvitationKey(st, invitation_key, their_role) ==
    LET tag_filter == "invitation_key" :> invitation_key
        post_filter == "state" :> StateRfc160("State.INVITATION")
    IN IF Truthy(their_role) /\ RoleGet(their_role) = None
       THEN [status |-> AttributeError.raised, out |-> None]
       ELSE RetrieveByTagFilter(st, tag_filter,
                IF Truthy(their_role)
                THEN ("their_role" :> RoleRfc160(RoleGet(their_role))) @@ post_filter
                ELSE post_filter)

\* a lookup by request id that also asks for the REQUEST state
RetrieveByRequestIdInRequestState(st, request_id) ==
    RetrieveByTagFilter(st, "request_id" :> request_id,
                        "state" :> StateRfc160("State.REQUEST"))

RetrieveByRequestId(st, request_id) ==
    RetrieveByTagFilter(st, "request_id" :> request_id, <<>>)

RetrievalFrame == UNCHANGED <<mem, aux, tasks, hist>>

\* ConnRecord(**kw) followed by save(): a new connection record in storage
Create(kw) ==
    LET new == ConnInit(kw)
    IN /\ Cardinality(DOMAIN store) < MaxConns
       /\ new # AttributeError
       /\ store' = SaveRecord(store, new)
       /\ result' = Ok("save", <<>>, None)
       /\ RetrievalFrame

RetrieveByDidCall(their_did, my_did, their_role) ==
    LET r == RetrieveByDid(store, their_did, my_did, their_role)
        args == [their_did |-> their_did, my_did |-> my_did, their_role |-> their_role]
    IN /\ result' = [op |-> "retrieve_by_did", args |-> args,
                     status |-> r.status, out |-> r.out]
       /\ UNCHANGED store
       /\ RetrievalFrame

RetrieveByInvitationKeyCall(invitation_key, their_role) ==
    LET r == RetrieveByInvitationKey(store, invitation_key, their_role)
        args == [invitation_key |-> invitation_key, their_role |-> their_role]
    IN /\ result' = [op |-> "retrieve_by_invitation_key", args |-> args,
                     status |-> r.status, out |-> r.out]
       /\ UNCHANGED store
       /\ RetrievalFrame

RetrieveByRequestIdCall(request_id) ==
    LET r == RetrieveByRequestId(store, request_id)
    IN /\ result' = [op |-> "retrieve_by_request_id",
                     args |-> [request_id |-> request_id],
                     status |-> r.status, out |-> r.out]
       /\ UNCHANGED store
       /\ RetrievalFrame

\* the connection records each retrieval is checked against
DidRecords ==
    {[NoArgs EXCEPT !.their_did = t, !.my_did = m, !.their_role = r] :
        t \in {"did:their1", "did:their2"}, m \in {None, "did:my1"},
        r \in {"invitee", "responder"}}

KeyRecords ==
    {[NoArgs EXCEPT !.invitation_key = k, !.state = s, !.their_role = r] :
        k \in {"key1", "key2"}, s \in {"invitation", "State.REQUEST"},
        r \in {None, "invitee", "responder"}}

RequestRecords ==
    {[NoArgs EXCEPT !.request_id = q, !.state = s, !.their_role = r] :
        q \in {None, "req1", "req2"}, s \in {None, "request"},
        r \in {None, "inviter"}}

NextByDid ==
    \/ \E kw \in DidRecords : Create(kw)
    \/ \E t \in {None, "did:their1", "did:their2"}, m \in {None, "", "did:my1"},
          r \in {None, "invitee", "responder", "bogus"} :
            RetrieveByDidCall(t, m, r)

SpecByDid == Init /\ [][NextByDid]_vars

NextByInvitationKey ==
    \/ \E kw \in KeyRecords : Create(kw)
    \/ \E k \in {"key1", "key2"},
          r \in {None, "invitee", "requester", "inviter", "bogus"} :
            RetrieveByInvitationKeyCall(k, r)

SpecByInvitationKey == Init /\ [][NextByInvitationKey]_vars

NextByRequestId ==
    \/ \E kw \in RequestRecords : Create(kw)
    \/ \E q \in {"req1", "req2", "req3"} : RetrieveByRequestIdCall(q)

SpecByRequestId == Init /\ [][NextByRequestId]_vars

----------------------------------------------------------------------------
(* Claims about the retrieval operations.                                  *)

\* an argument counts as supplied when it is neither None nor the empty string
Supplied(x) == x # None /\ x # ""

\* the stored record id carries role label `label`, given in either vocabulary
StoredRoleIs(id, label) ==
    \E r \in RoleSet :
        /\ label \in {RoleValue(r)[1], RoleValue(r)[2]}
        /\ store[id].value.their_role = RoleValue(r)[1]

\* the instance `rec` is the stored record id
IsStoredRecord(rec, id) ==
    /\ rec.connection_id = id
    /\ \A tag \in TAG_NAMES : rec[tag] = store[id].tags[tag]
    /\ rec.their_role = store[id].value.their_role
    /\ StateGet(rec.state) = StateGet(store[id].value.state)

\* what a lookup with candidate set cand must have given
ExactlyOneOf(cand) ==
    /\ cand = {} => result.status = StorageNotFoundError
    /\ Cardinality(cand) > 1 => result.status = StorageDuplicateError
    /\ Cardinality(cand) = 1 =>
         /\ result.status = "ok"
         /\ \A id \in cand : IsStoredRecord(result.out, id)
    /\ result.status = "ok" => Cardinality(cand) = 1

\* C7 (SpecByDid): retrieve_by_did constrains the result by exactly the DID
\* arguments that are supplied and, when their_role is supplied under either
\* vocabulary, by the stored rfc160 label of that role; an argument that is
\* not supplied places no constraint on the record.
C7_ByDidSuppliedOnly ==
    (result.op = "retrieve_by_did" /\ result.status # AttributeError.raised) =>
        LET a == result.args
            cand == {id \in DOMAIN store :
                       /\ Supplied(a.their_did) =>
                            store[id].tags.their_did = a.their_did
                       /\ Supplied(a.my_did) => store[id].tags.my_did = a.my_did
                       /\ Supplied(a.their_role) => StoredRoleIs(id, a.their_role)}
        IN ExactlyOneOf(cand)

C7_Witness ==
    /\ result.op = "retrieve_by_did"
    /\ result.status = "ok"
    /\ result.args = [their_did |-> "did:their1", my_did |-> None,
                      their_role |-> "responder"]
    /\ result.out.my_did = "did:my1"
    /\ result.out.their_role = "inviter"
    /\ Cardinality(DOMAIN store) = 2

\* C6 (SpecByInvitationKey): retrieve_by_invitation_key returns a record only
\* if its invitation_key is the argument, its state is INVITATION and, when
\* their_role is supplied under either vocabulary, its stored their_role is
\* the rfc160 label of that role; no match fails with StorageNotFoundError.
C6_ByInvitationKeyInInvitationState ==
    (result.op = "retrieve_by_invitation_key"
        /\ result.status # AttributeError.raised) =>
        LET a == result.args
            cand == {id \in DOMAIN store :
                       /\ store[id].tags.invitation_key = a.invitation_key
                       /\ store[id].value.state
                              \in Range(StateValue("State.INVITATION"))
                       /\ Supplied(a.their_role) => StoredRoleIs(id, a.their_role)}
        IN /\ ExactlyOneOf(cand)
           /\ result.status = "ok" =>
                /\ result.out.invitation_key = a.invitation_key
                /\ StateGet(result.out.state) = "State.INVITATION"

C6_Witness ==
    /\ result.op = "retrieve_by_invitation_key"
    /\ result.status = "ok"
    /\ result.args = [invitation_key |-> "key1", their_role |-> "requester"]
    /\ result.out.their_role = "invitee"
    /\ \E id \in DOMAIN store :
         /\ store[id].tags.invitation_key = "key1"
         /\ store[id].value.state = "request"
         /\ store[id].value.their_role = "invitee"

\* C3 (SpecByRequestId): retrieve_by_request_id returns the record when
\* exactly one stored record carries the request id, whatever its state and
\* role, fails with StorageNotFoundError when none does and with
\* StorageDuplicateError when two or more do; a returned record carries the
\* request id asked for.
C3_ByRequestIdTagOnly ==
    result.op = "retrieve_by_request_id" =>
        LET a == result.args
            cand == {id \in DOMAIN store :
                       store[id].tags.request_id = a.request_id}
        IN /\ ExactlyOneOf(cand)
           /\ result.status = "ok" => result.out.request_id = a.request_id

C3_Witness ==
    /\ result.op = "retrieve_by_request_id"
    /\ result.status = StorageDuplicateError
    /\ \E i, j \in DOMAIN store :
         /\ store[i].tags.request_id = result.args.request_id
         /\ store[j].tags.request_id = result.args.request_id
         /\ store[i].value.state = "init"
         /\ store[j].value.state = "request"

----------------------------------------------------------------------------
(* The storage collaborator for invitation and metadata records            *)
(* (BaseStorage: add_record, find_record, update_record).  aux is the      *)
(* sequence of records added; a record's id is its position.               *)

MaxCalls == 3

AssertionError == "AssertionError"

StorageRecord(type, value, tags) == [type |-> type, value |-> value, tags |-> tags]

AddRecord(st, record) == Append(st, record)

\* the positions of the records of a type whose tags include tag_query
Matching(st, type_filter, tag_query) ==
    {i \in DOMAIN st :
        /\ st[i].type = type_filter
        /\ \A k \in DOMAIN tag_query :
             k \in DOMAIN st[i].tags /\ st[i].tags[k] = tag_query[k]}

\* find_record: the outcomes storage can give, each the id of the record
\* found (0 when none is returned).  No match is StorageNotFoundError; one
\* match is that record; with several matches the storage semantics decide:
\* StorageDuplicateError, or one of the records.
FindRecord(st, type_filter, tag_query) ==
    LET found == Matching(st, type_filter, tag_query)
        hits == {[status |-> "ok", id |-> i] : i \in found}
    IN IF found = {}
       THEN {[status |-> StorageNotFoundError, id |-> 0]}
       ELSE IF Cardinality(found) = 1 THEN hits
       ELSE hits \cup {[status |-> StorageDuplicateError, id |-> 0]}

UpdateRecord(st, id, value, tags) ==
    [st EXCEPT ![id] = StorageRecord(st[id].type, value, tags)]

MetadataTags(conn, key) == [key |-> key, connection_id |-> conn]

InFlight(t) == tasks[t].pc # "idle"

\* another call for the same connection and key is between its storage calls
OtherInFlight(t, conn, key) ==
    \E u \in Tasks \ {t} :
        InFlight(u) /\ tasks[u].conn = conn /\ tasks[u].key = key

OtherAboutToAdd(t, conn, key) ==
    \E u \in Tasks \ {t} :
        tasks[u].pc = "add" /\ tasks[u].conn = conn /\ tasks[u].key = key

MetaFrame == UNCHANGED <<mem, store>>

\* metadata_set up to its first storage call: the assertion, then find_record
MetadataSetFind(t, conn, key, value) ==
    /\ tasks[t].pc = "idle"
    /\ hist.calls < MaxCalls
    /\ MetaFrame
    /\ UNCHANGED aux
    /\ IF ~Truthy(conn)
       THEN /\ result' = Raised("metadata_set", <<>>, AssertionError)
            /\ UNCHANGED <<tasks, hist>>
       ELSE \E f \in FindRecord(aux, RECORD_TYPE_METADATA, MetadataTags(conn, key)) :
              /\ hist' = [hist EXCEPT
                            !.calls = @ + 1,
                            !.overlap = IF OtherInFlight(t, conn, key)
                                        THEN @ \cup {<<conn, key>>} ELSE @,
                            !.raced = IF f.status = StorageNotFoundError
                                         /\ OtherAboutToAdd(t, conn, key)
                                      THEN @ \cup {<<conn, key>>} ELSE @]
              /\ IF f.status = StorageDuplicateError
                 THEN /\ result' = Raised("metadata_set", <<>>, StorageDuplicateError)
                      /\ UNCHANGED tasks
                 ELSE /\ result' = Ok("metadata_set.find", <<>>, None)
                      /\ tasks' = [tasks EXCEPT ![t] =
                            [pc |-> IF f.status = "ok" THEN "update" ELSE "add",
                             conn |-> conn, key |-> key, value |-> value,
                             record |-> IF f.status = "ok"
                                        THEN [id |-> f.id, tags |-> aux[f.id].tags]
                                        ELSE IdleFrame.record]]

Completed(t) ==
    [hist EXCEPT !.sets[<<tasks[t].conn, tasks[t].key>>] = Append(@, tasks[t].value)]

\* the found branch carried out as an add of a second record
MetadataSetUpdateByAdding(t) ==
    /\ tasks[t].pc = "update"
    /\ aux' = AddRecord(aux, StorageRecord(RECORD_TYPE_METADATA, tasks[t].value,
                                           tasks[t].record.tags))
    /\ tasks' = [tasks EXCEPT ![t] = IdleFrame]
    /\ hist' = Completed(t)
    /\ result' = Ok("metadata_set", <<>>, None)
    /\ MetaFrame

\* metadata_set, the found branch: update_record(record, value, record.tags)
MetadataSetUpdate(t) ==
    /\ tasks[t].pc = "update"
    /\ aux' = UpdateRecord(aux, tasks[t].record.id, tasks[t].value,
                           tasks[t].record.tags)
    /\ tasks' = [tasks EXCEPT ![t] = IdleFrame]
    /\ hist' = Completed(t)
    /\ result' = Ok("metadata_set", <<>>, None)
    /\ MetaFrame

\* the not-found branch carried out as an upsert: a record that appeared
\* meanwhile is overwritten instead of duplicated
MetadataSetAddAsUpsert(t) ==
    LET now == Matching(aux, RECORD_TYPE_METADATA,
                        MetadataTags(tasks[t].conn, tasks[t].key))
    IN /\ tasks[t].pc = "add"
       /\ aux' = IF now = {}
                 THEN AddRecord(aux, StorageRecord(RECORD_TYPE_METADATA, tasks[t].value,
                                    MetadataTags(tasks[t].conn, tasks[t].key)))
                 ELSE UpdateRecord(aux, CHOOSE i \in now : TRUE, tasks[t].value,
                                   MetadataTags(tasks[t].conn, tasks[t].key))
       /\ tasks' = [tasks EXCEPT ![t] = IdleFrame]
       /\ hist' = Completed(t)
       /\ result' = Ok("metadata_set", <<>>, None)
       /\ MetaFrame

\* metadata_set, the StorageNotFoundError branch: add_record of a new record
MetadataSetAdd(t) ==
    /\ tasks[t].pc = "add"
    /\ aux' = AddRecord(aux, StorageRecord(RECORD_TYPE_METADATA, tasks[t].value,
                                           MetadataTags(tasks[t].conn, tasks[t].key)))
    /\ tasks' = [tasks EXCEPT ![t] = IdleFrame]
    /\ hist' = Completed(t)
    /\ result' = Ok("metadata_set", <<>>, None)
    /\ MetaFrame

\* a getter that lets StorageNotFoundError through
MetadataGetNoDefault(conn, key, default) ==
    /\ MetaFrame
    /\ UNCHANGED <<aux, tasks, hist>>
    /\ IF ~Truthy(conn)
       THEN result' = Raised("metadata_get", <<conn, key, default>>, AssertionError)
       ELSE \E f \in FindRecord(aux, RECORD_TYPE_METADATA, MetadataTags(conn, key)) :
              result' = IF f.status = "ok"
                        THEN Ok("metadata_get", <<conn, key, default>>, aux[f.id].value)
                        ELSE Raised("metadata_get", <<conn, key, default>>, f.status)

\* metadata_get: one find_record; StorageNotFoundError gives the default
MetadataGet(conn, key, default) ==
    /\ MetaFrame
    /\ UNCHANGED <<aux, tasks, hist>>
    /\ IF ~Truthy(conn)
       THEN result' = Raised("metadata_get", <<conn, key, default>>, AssertionError)
       ELSE \E f \in FindRecord(aux, RECORD_TYPE_METADATA, MetadataTags(conn, key)) :
              result' = IF f.status = "ok"
                        THEN Ok("metadata_get", <<conn, key, default>>, aux[f.id].value)
                        ELSE IF f.status = StorageNotFoundError
                        THEN Ok("metadata_get", <<conn, key, default>>, default)
                        ELSE Raised("metadata_get", <<conn, key, default>>, f.status)

NextMetadata ==
    \/ \E t \in Tasks, p \in SetPairs, value \in MetaValues :
          MetadataSetFind(t, p[1], p[2], value)
    \/ \E t \in Tasks : MetadataSetUpdate(t)
    \/ \E t \in Tasks : MetadataSetAdd(t)
    \/ \E p \in GetPairs, default \in {None, "fallback"} :
          MetadataGet(p[1], p[2], default)

SpecMetadata == Init /\ [][NextMetadata]_vars

----------------------------------------------------------------------------
(* Claims about the metadata store, checked under SpecMetadata.            *)

\* the stored connection_metadata records tagged {key, connection_id}
MetadataRecords(st, conn, key) ==
    {i \in DOMAIN st :
        /\ st[i].type = "connection_metadata"
        /\ st[i].tags = [key |-> key, connection_id |-> conn]}

Last(seq) == seq[Len(seq)]

\* C1: for a connection with an id and a key whose metadata_set calls ran one
\* after another, storage holds exactly one connection_metadata record tagged
\* {key, connection_id}, its value is the one passed to the most recent
\* metadata_set, and metadata_get returns that value.
C1_SequentialSetsKeepOneRecord ==
    \A p \in MetaPairs \ hist.overlap :
        LET recs == MetadataRecords(aux, p[1], p[2])
            done == hist.sets[p]
        IN /\ done = <<>> => recs = {}
           /\ done # <<>> =>
                /\ Cardinality(recs) = 1
                /\ \A i \in recs : aux[i].value = Last(done)
           /\ (/\ result.op = "metadata_get"
               /\ result.args[1] = p[1]
               /\ result.args[2] = p[2]
               /\ done # <<>>)
                => (result.status = "ok" /\ result.out = Last(done))

C1_Witness ==
    /\ result.op = "metadata_get"
    /\ result.args = <<"1", "k1", None>>
    /\ result.status = "ok"
    /\ result.out = "v2"
    /\ hist.sets[<<"1", "k1">>] = <<"v1", "v2">>
    /\ <<"1", "k1">> \notin hist.overlap
    /\ Cardinality(MetadataRecords(aux, "1", "k1")) = 1

\* C4: metadata_get on a connection with an id returns the stored value when
\* the record tagged {key, connection_id} exists and the supplied default
\* when none exists (it does not fail on a missing key), and leaves storage
\* unchanged.
C4_GetReturnsValueOrDefault ==
    [][(result'.op = "metadata_get" /\ result'.args[1] # None) =>
          LET recs == MetadataRecords(aux, result'.args[1], result'.args[2])
          IN /\ aux' = aux
             /\ recs = {} =>
                  (result'.status = "ok" /\ result'.out = result'.args[3])
             /\ Cardinality(recs) = 1 =>
                  /\ result'.status = "ok"
                  /\ \A i \in recs : result'.out = aux[i].value
             /\ (recs # {} /\ result'.status = "ok") =>
                  \E i \in recs : result'.out = aux[i].value]_vars

C4_Witness ==
    /\ result.op = "metadata_get"
    /\ result.args = <<"1", "missing", "fallback">>
    /\ result.status = "ok"
    /\ result.out = "fallback"
    /\ MetadataRecords(aux, "1", "k1") # {}

\* C10: when two metadata_set calls for the same key and connection both saw
\* not-found before either added, then once both have added storage holds two
\* connection_metadata records tagged with the same {key, connection_id}.
C10_RacingSetsLeaveTwoRecords ==
    \A p \in hist.raced :
        (\A t \in Tasks : InFlight(t) => <<tasks[t].conn, tasks[t].key>> # p)
            => Cardinality(MetadataRecords(aux, p[1], p[2])) >= 2

C10_Witness ==
    /\ <<"1", "k1">> \in hist.raced
    /\ \A t \in Tasks : ~InFlight(t)
    /\ Cardinality(MetadataRecords(aux, "1", "k1")) = 2
    /\ hist.calls = 2

----------------------------------------------------------------------------
(* The attached invitation document.  A message type is the sequence       *)
(* <<prefix, bare type>>, or <<bare type>> when it carries no prefix.      *)

MaxAttach == 2

DIDCOMM_PREFIXES == {"https://didcomm.org/", "did:sov:BzCbsNYhMrjHiqZDTUASHg;spec/"}

CONNECTION_INVITATION == "connections/1.0/invitation"

CONNECTION_REQUEST == "connections/1.0/request"

OOB_INVITATION == "out-of-band/1.0/invitation"

\* DIDCommPrefix.unqualify: the type with a known prefix stripped
Unqualify(type) ==
    IF Len(type) = 2 /\ type[1] \in DIDCOMM_PREFIXES THEN type[2] ELSE type[1]

\* the two invitation messages; a field a message does not have is None
ConnectionInvitation(type, label, recipient_keys) ==
    [cls |-> "ConnectionInvitation", type |-> type, label |-> label,
     recipient_keys |-> recipient_keys, service |-> None]

OOBInvitation(type, label, service) ==
    [cls |-> "OOBInvitation", type |-> type, label |-> label,
     recipient_keys |-> None, service |-> service]

\* to_json: the message as a JSON object keyed by its wire names
ToJson(msg) ==
    IF msg.cls = "ConnectionInvitation"
    THEN ("@type" :> msg.type) @@ ("label" :> msg.label)
             @@ ("recipientKeys" :> msg.recipient_keys)
    ELSE ("@type" :> msg.type) @@ ("label" :> msg.label)
             @@ ("service" :> msg.service)

ValidationError == "BaseModelError"

NoMessage == OOBInvitation(<<None>>, None, None)

\* cls.deserialize(ser): the message, or an error when ser does not fit the
\* schema of cls
Deserialize(cls, ser) ==
    IF cls = "ConnectionInvitation"
    THEN IF DOMAIN ser = {"@type", "label", "recipientKeys"}
         THEN [status |-> "ok",
               out |-> ConnectionInvitation(ser["@type"], ser["label"],
                                            ser["recipientKeys"])]
         ELSE [status |-> ValidationError, out |-> NoMessage]
    ELSE IF DOMAIN ser = {"@type", "label", "service"}
         THEN [status |-> "ok",
               out |-> OOBInvitation(ser["@type"], ser["label"], ser["service"])]
         ELSE [status |-> ValidationError, out |-> NoMessage]

\* the dispatch of retrieve_request applied to an invitation
InvitationClassByRequestType(ser) ==
    IF Unqualify(ser["@type"]) = CONNECTION_REQUEST
    THEN "ConnectionInvitation" ELSE "OOBInvitation"

\* retrieve_invitation's choice of the class to deserialize with
InvitationClass(ser) ==
    IF Unqualify(ser["@type"]) = CONNECTION_INVITATION
    THEN "ConnectionInvitation" ELSE "OOBInvitation"

InvitationFrame == UNCHANGED <<mem, store, tasks>>

AttachInvitation(conn, invitation) ==
    /\ Len(aux) < MaxAttach
    /\ InvitationFrame
    /\ IF ~Truthy(conn)
       THEN /\ result' = Raised("attach_invitation", <<conn>>, AssertionError)
            /\ UNCHANGED <<aux, hist>>
       ELSE /\ aux' = AddRecord(aux, StorageRecord(RECORD_TYPE_INVITATION,
                                    ToJson(invitation), [connection_id |-> conn]))
            /\ hist' = [hist EXCEPT !.attached[conn] = Append(@, invitation)]
            /\ result' = Ok("attach_invitation", <<conn>>, None)

RetrieveInvitation(conn) ==
    /\ InvitationFrame
    /\ UNCHANGED <<aux, hist>>
    /\ IF ~Truthy(conn)
       THEN result' = Raised("retrieve_invitation", <<conn>>, AssertionError)
       ELSE \E f \in FindRecord(aux, RECORD_TYPE_INVITATION, [connection_id |-> conn]) :
              IF f.status # "ok"
              THEN result' = Raised("retrieve_invitation", <<conn>>, f.status)
              ELSE LET ser == aux[f.id].value
                       msg == Deserialize(InvitationClass(ser), ser)
                   IN result' = [op |-> "retrieve_invitation", args |-> <<conn>>,
                                 status |-> msg.status, out |-> msg.out]

\* the invitations a caller attaches: each class with its own message type
InvitationInputs ==
    {ConnectionInvitation(<<p, CONNECTION_INVITATION>>, l, "key1") :
        p \in DIDCOMM_PREFIXES, l \in {"Alice", "Bob"}}
    \cup {OOBInvitation(<<p, OOB_INVITATION>>, l, "did:sov:service") :
        p \in DIDCOMM_PREFIXES, l \in {"Alice", "Bob"}}

NextInvitation ==
    \/ \E conn \in MetaConns \cup {None}, invitation \in InvitationInputs :
          AttachInvitation(conn, invitation)
    \/ \E conn \in MetaConns \cup {None} : RetrieveInvitation(conn)

SpecInvitation == Init /\ [][NextInvitation]_vars

\* C2 (SpecInvitation): after attach_invitation on a connection with an id
\* and no earlier invitation record, retrieve_invitation returns a document
\* equal field for field to the one attached, of the ConnectionInvitation
\* class when its unqualified @type is the connection-invitation type and of
\* the out-of-band class when it is the out-of-band type.
C2_InvitationRoundTrip ==
    (/\ result.op = "retrieve_invitation"
     /\ result.args[1] # None
     /\ Len(hist.attached[result.args[1]]) = 1) =>
        LET doc == hist.attached[result.args[1]][1]
            bare == doc.type[Len(doc.type)]
        IN /\ result.status = "ok"
           /\ result.out = doc
           /\ bare = "connections/1.0/invitation"
                 => result.out.cls = "ConnectionInvitation"
           /\ bare = "out-of-band/1.0/invitation"
                 => result.out.cls = "OOBInvitation"

C2_Witness ==
    /\ result.op = "retrieve_invitation"
    /\ result.args = <<"1">>
    /\ result.status = "ok"
    /\ result.out.cls = "ConnectionInvitation"
    /\ result.out.type = <<"did:sov:BzCbsNYhMrjHiqZDTUASHg;spec/",
                           "connections/1.0/invitation">>
    /\ result.out.label = "Bob"
    /\ Len(hist.attached["2"]) = 1
    /\ hist.attached["2"][1].cls = "OOBInvitation"

====
